---- MODULE Spec2Model ----
(***************************************************************************)
(* go-cardano-fees: transaction fee and minUTxO formulas over uint64.       *)
(*                                                                         *)
(* A uint64 is modelled at its full width as a little-endian sequence of   *)
(* U64Len bytes, so that Go's wrapping + and * are computed digit by digit *)
(* (TLC's own integers are 32 bits wide).  The exact, unbounded value of   *)
(* an expression is computed on WideLen bytes, wide enough that no         *)
(* formula of the package can wrap there.                                  *)
(***************************************************************************)
EXTENDS Integers, Sequences, FiniteSets, TLC

VARIABLES p, op, args, res, prev

vars == <<p, op, args, res, prev>>

\* Bytes of a Go uint64.
U64Len == 8

\* Bytes of the exact (non-wrapping) arithmetic the claims compare against.
WideLen == 2 * U64Len + 2

\* Small argument values 0..MaxSmall are enumerated besides the boundary values.
MaxSmall == 2

\* SumLovelace is called on sequences of at most MaxLen amounts.
MaxLen == 3


-----------------------------------------------------------------------------
(* Digit arithmetic, base 256, little-endian, on sequences of equal length. *)

\* The n-byte numeral of a small natural v.
RECURSIVE Num(_, _)
Num(v, n) == IF n = 0 THEN <<>> ELSE <<v % 256>> \o Num(v \div 256, n - 1)

\* uint64(v) for a small natural v.
U(v) == Num(v, U64Len)

\* a widened (or truncated) to n bytes: the value of a modulo 256^n.
Resize(a, n) == [i \in 1..n |-> IF i <= Len(a) THEN a[i] ELSE 0]

RECURSIVE AddDigits(_, _, _, _)
AddDigits(a, b, k, carry) ==
  IF k > Len(a) THEN <<>>
  ELSE LET s == a[k] + b[k] + carry
       IN  <<s % 256>> \o AddDigits(a, b, k + 1, s \div 256)

\* a + b modulo 256^Len(a).
AddN(a, b) == AddDigits(a, b, 1, 0)

RECURSIVE Column(_, _, _, _)
Column(a, b, k, i) ==
  IF i > k THEN 0 ELSE a[i] * b[k + 1 - i] + Column(a, b, k, i + 1)

RECURSIVE MulDigits(_, _, _, _)
MulDigits(a, b, k, carry) ==
  IF k > Len(a) THEN <<>>
  ELSE LET s == Column(a, b, k, 1) + carry
       IN  <<s % 256>> \o MulDigits(a, b, k + 1, s \div 256)

\* a * b modulo 256^Len(a).
MulN(a, b) == MulDigits(a, b, 1, 0)

RECURSIVE LessFrom(_, _, _)
LessFrom(a, b, i) ==
  IF i = 0 THEN FALSE
  ELSE IF a[i] # b[i] THEN a[i] < b[i]
  ELSE LessFrom(a, b, i - 1)

RECURSIVE SubDigits(_, _, _, _)
SubDigits(a, b, k, borrow) ==
  IF k > Len(a) THEN <<>>
  ELSE LET s == a[k] - b[k] - borrow
       IN  <<s % 256>> \o SubDigits(a, b, k + 1, IF s < 0 THEN 1 ELSE 0)

\* a - b modulo 256^Len(a).
SubN(a, b) == SubDigits(a, b, 1, 0)

\* a < b and a <= b, for numerals of equal length.
Less(a, b) == LessFrom(a, b, Len(a))
Leq(a, b) == ~Less(b, a)

IsZero(a) == \A i \in 1..Len(a) : a[i] = 0

-----------------------------------------------------------------------------
(* Go's uint64 operators. *)

U64Add(a, b) == AddN(a, b)
U64Mul(a, b) == MulN(a, b)
U64Gt(a, b) == Less(b, a)
U64Sub(a, b) == SubN(a, b)


\* math.MaxUint64
MaxUint64 == [i \in 1..U64Len |-> 255]


\* The exact value of a uint64, and whether an exact value fits a uint64.
W(a) == Resize(a, WideLen)
Fits64(w) == \A i \in (U64Len + 1)..Len(w) : w[i] = 0

-----------------------------------------------------------------------------
(* Errors and results: a Go (uint64, error) pair. *)

NoErr == [kind |-> "nil", info |-> ""]
ParamError(field) == [kind |-> "ParamError", info |-> field]
FeeError(reason) == [kind |-> "FeeError", info |-> reason]
MinUTxOError(reason) == [kind |-> "MinUTxOError", info |-> reason]

Ok(v) == [val |-> v, err |-> NoErr]
Fail(e) == [val |-> U(0), err |-> e]

Failed(r) == r.err # NoErr

-----------------------------------------------------------------------------
(* params.go *)

ProtocolParams(a, b, c, m) ==
  [MinFeeA |-> a, MinFeeB |-> b, CoinsPerUTxOByte |-> c, MaxTxSize |-> m]

DefaultMainnetParams == ProtocolParams(U(44), U(155381), U(4310), U(16384))

DefaultPreviewParams == ProtocolParams(U(44), U(155381), U(4310), U(16384))

\* Validate with the checks in the reverse order.
ValidateChecksLastFirst(pp) ==
  IF IsZero(pp.MaxTxSize) THEN ParamError("MaxTxSize")
  ELSE IF IsZero(pp.CoinsPerUTxOByte) THEN ParamError("CoinsPerUTxOByte")
  ELSE IF IsZero(pp.MinFeeB) THEN ParamError("MinFeeB")
  ELSE IF IsZero(pp.MinFeeA) THEN ParamError("MinFeeA")
  ELSE NoErr

Validate(pp) ==
  IF IsZero(pp.MinFeeA) THEN ParamError("MinFeeA")
  ELSE IF IsZero(pp.MinFeeB) THEN ParamError("MinFeeB")
  ELSE IF IsZero(pp.CoinsPerUTxOByte) THEN ParamError("CoinsPerUTxOByte")
  ELSE IF IsZero(pp.MaxTxSize) THEN ParamError("MaxTxSize")
  ELSE NoErr

-----------------------------------------------------------------------------
(* fee calculator *)

\* MinFee with the size bound off by one: a transaction of exactly MaxTxSize
\* bytes is refused.
MinFeeRefusesMaxTxSize(pp, txSizeBytes) ==
  IF Validate(pp) # NoErr THEN Fail(Validate(pp))
  ELSE IF IsZero(txSizeBytes)
    THEN Fail(FeeError("txSizeBytes must be greater than zero"))
  ELSE IF ~Less(txSizeBytes, pp.MaxTxSize)
    THEN Fail(FeeError("txSizeBytes exceeds MaxTxSize"))
  ELSE Ok(U64Add(U64Mul(pp.MinFeeA, txSizeBytes), pp.MinFeeB))

\* MinFee refusing only a zero in the fields its formula reads.
MinFeeChecksOwnFields(pp, txSizeBytes) ==
  IF IsZero(pp.MinFeeA) THEN Fail(ParamError("MinFeeA"))
  ELSE IF IsZero(pp.MinFeeB) THEN Fail(ParamError("MinFeeB"))
  ELSE IF IsZero(pp.MaxTxSize) THEN Fail(ParamError("MaxTxSize"))
  ELSE IF IsZero(txSizeBytes)
    THEN Fail(FeeError("txSizeBytes must be greater than zero"))
  ELSE IF U64Gt(txSizeBytes, pp.MaxTxSize)
    THEN Fail(FeeError("txSizeBytes exceeds MaxTxSize"))
  ELSE Ok(U64Add(U64Mul(pp.MinFeeA, txSizeBytes), pp.MinFeeB))

MinFee(pp, txSizeBytes) ==
  IF Validate(pp) # NoErr THEN Fail(Validate(pp))
  ELSE IF IsZero(txSizeBytes)
    THEN Fail(FeeError("txSizeBytes must be greater than zero"))
  ELSE IF U64Gt(txSizeBytes, pp.MaxTxSize)
    THEN Fail(FeeError("txSizeBytes exceeds MaxTxSize"))
  ELSE Ok(U64Add(U64Mul(pp.MinFeeA, txSizeBytes), pp.MinFeeB))

MinFeeWithPadding(pp, txSizeBytes, paddingBytes) ==
  MinFee(pp, U64Add(txSizeBytes, paddingBytes))

baseTxSize == 200
bytesPerInput == 140
bytesPerOutput == 65
metadataSize == 250

\* The estimated size EstimateFee hands to MinFee.
EstimatedTxSize(numInputs, numOutputs, hasMetadata) ==
  LET estimated == U64Add(U64Add(U(baseTxSize),
                                 U64Mul(U(bytesPerInput), numInputs)),
                          U64Mul(U(bytesPerOutput), numOutputs))
  IN  IF hasMetadata THEN U64Add(estimated, U(metadataSize)) ELSE estimated

EstimateFee(pp, numInputs, numOutputs, hasMetadata) ==
  IF Validate(pp) # NoErr THEN Fail(Validate(pp))
  ELSE IF IsZero(numInputs)
    THEN Fail(FeeError("numInputs must be at least 1"))
  ELSE IF IsZero(numOutputs)
    THEN Fail(FeeError("numOutputs must be at least 1"))
  ELSE MinFee(pp, EstimatedTxSize(numInputs, numOutputs, hasMetadata))

-----------------------------------------------------------------------------
(* minUTxO calculator *)

\* The zero value of the OutputSize struct.
ZeroOutputSize ==
  [AddressBytes |-> U(0), NumPolicies |-> U(0), NumAssets |-> U(0),
   TotalAssetNameBytes |-> U(0), HasDatumHash |-> FALSE,
   HasInlineDatum |-> FALSE, InlineDatumBytes |-> U(0),
   HasScriptRef |-> FALSE, ScriptRefBytes |-> U(0)]

envelopeOverhead == 10
adaValueBytes == 9
policyHashBytes == 28
perAssetOverhead == 12
perAssetIntBytes == 5
tokenBundleFixed == 5
datumHashBytes == 32

EstimateOutputBytes(out) ==
  LET t0 == U64Add(U64Add(U(envelopeOverhead), out.AddressBytes),
                   U(adaValueBytes))
      t1 == IF U64Gt(out.NumAssets, U(0)) \/ U64Gt(out.NumPolicies, U(0))
            THEN LET b1 == U64Add(t0, U(tokenBundleFixed))
                     b2 == U64Add(b1, U64Mul(U(policyHashBytes), out.NumPolicies))
                     b3 == U64Add(b2, U64Mul(U(perAssetOverhead), out.NumAssets))
                     b4 == U64Add(b3, out.TotalAssetNameBytes)
                 IN  U64Add(b4, U64Mul(U(perAssetIntBytes), out.NumAssets))
            ELSE t0
      t2 == IF out.HasDatumHash THEN U64Add(t1, U(datumHashBytes)) ELSE t1
      t3 == IF out.HasInlineDatum THEN U64Add(t2, out.InlineDatumBytes) ELSE t2
  IN  IF out.HasScriptRef THEN U64Add(t3, out.ScriptRefBytes) ELSE t3

MinUTxOFromBytes(pp, serializedOutputBytes) ==
  IF Validate(pp) # NoErr THEN Fail(Validate(pp))
  ELSE IF IsZero(serializedOutputBytes)
    THEN Fail(MinUTxOError("serializedOutputBytes must be greater than zero"))
  ELSE Ok(U64Mul(U64Add(U(160), serializedOutputBytes),
                 pp.CoinsPerUTxOByte))

MinUTxO(pp, out) ==
  IF Validate(pp) # NoErr THEN Fail(Validate(pp))
  ELSE MinUTxOFromBytes(pp, EstimateOutputBytes(out))

MinUTxOADAOnly(pp) ==
  MinUTxO(pp, [ZeroOutputSize EXCEPT !.AddressBytes = U(57)])

\* The OutputSize literal MinUTxOForNFT and MinUTxOForBundle build.
BundleOutput(numPolicies, numAssets, totalAssetNameBytes) ==
  [ZeroOutputSize EXCEPT !.AddressBytes = U(57),
                         !.NumPolicies = numPolicies,
                         !.NumAssets = numAssets,
                         !.TotalAssetNameBytes = totalAssetNameBytes]

\* MinUTxOForNFT validating params before its own argument.
MinUTxOForNFTValidatesFirst(pp, assetNameLen) ==
  IF Validate(pp) # NoErr THEN Fail(Validate(pp))
  ELSE IF U64Gt(assetNameLen, U(32))
    THEN Fail(MinUTxOError("assetNameLen exceeds maximum of 32 bytes"))
  ELSE MinUTxO(pp, BundleOutput(U(1), U(1), assetNameLen))

MinUTxOForNFT(pp, assetNameLen) ==
  IF U64Gt(assetNameLen, U(32))
    THEN Fail(MinUTxOError("assetNameLen exceeds maximum of 32 bytes"))
  ELSE MinUTxO(pp, BundleOutput(U(1), U(1), assetNameLen))

MinUTxOForBundle(pp, numPolicies, numAssets, totalAssetNameBytes) ==
  IF IsZero(numPolicies)
    THEN Fail(MinUTxOError("numPolicies must be at least 1"))
  ELSE IF IsZero(numAssets)
    THEN Fail(MinUTxOError("numAssets must be at least 1"))
  ELSE MinUTxO(pp, BundleOutput(numPolicies, numAssets, totalAssetNameBytes))

-----------------------------------------------------------------------------
(* lovelace.go: overflow-checked sums and the minUTxO guard *)

LovelacePerADA == 1000000

\* A float64 in the range these conversions use is kept as sign and magnitude,
\* the magnitude in units of 2^-(8 * FracBytes) on FloatLen bytes; NaN is a
\* value of its own.  Every operation rounds to MantissaBits significant bits,
\* to nearest, ties to even.
FloatLen == 20
FracBytes == 10
MantissaBits == 53

Float(neg, mag) == [nan |-> FALSE, neg |-> neg, mag |-> mag]
NaN == [nan |-> TRUE, neg |-> FALSE, mag |-> Num(0, FloatLen)]

Bit(a, i) == (a[(i \div 8) + 1] \div 2^(i % 8)) % 2

BitLen(a) ==
  IF IsZero(a) THEN 0
  ELSE LET k == CHOOSE i \in 1..Len(a) :
                  a[i] # 0 /\ \A j \in (i + 1)..Len(a) : a[j] = 0
           b == CHOOSE n \in 1..8 : 2^(n - 1) <= a[k] /\ a[k] < 2^n
       IN  8 * (k - 1) + b

\* 2^s as a numeral of FloatLen bytes.
Pow2(s) == [k \in 1..FloatLen |-> IF k = (s \div 8) + 1 THEN 2^(s % 8) ELSE 0]

\* a with its s lowest bits cleared.
ClearLow(a, s) ==
  [k \in 1..Len(a) |->
     IF 8 * k <= s THEN 0
     ELSE IF 8 * (k - 1) >= s THEN a[k]
     ELSE LET unit == 2^(s - 8 * (k - 1)) IN (a[k] \div unit) * unit]

\* The float64 nearest to mag + (a positive fraction of a unit if sticky).
RoundMag(mag, sticky) ==
  LET s == BitLen(mag) - MantissaBits
  IN  IF s <= 0 THEN mag
      ELSE LET guard == Bit(mag, s - 1) = 1
               rest == sticky \/ \E i \in 0..(s - 2) : Bit(mag, i) = 1
               odd == Bit(mag, s) = 1
               kept == ClearLow(mag, s)
           IN  IF guard /\ (rest \/ odd) THEN AddN(kept, Pow2(s)) ELSE kept

\* a \div d and a % d for a numeral a and 0 < d <= 2^20, by long division
\* from the highest byte.
RECURSIVE DivFrom(_, _, _, _)
DivFrom(a, d, k, r) ==
  IF k = 0 THEN [q |-> <<>>, r |-> r]
  ELSE LET cur == r * 256 + a[k]
           low == DivFrom(a, d, k - 1, cur % d)
       IN  [q |-> Append(low.q, cur \div d), r |-> low.r]
DivSmall(a, d) == DivFrom(a, d, Len(a), 0)

\* float64(n) for a uint64 n.
FloatOfUint64(n) ==
  Float(FALSE, RoundMag([k \in 1..FracBytes |-> 0] \o Resize(n, FloatLen - FracBytes),
                        FALSE))

\* x / float64(d) and x * float64(d) for an integer 0 < d <= 2^20.
FloatDiv(x, d) ==
  IF x.nan THEN NaN
  ELSE LET t == DivSmall(x.mag, d) IN Float(x.neg, RoundMag(t.q, t.r # 0))
FloatMul(x, d) ==
  IF x.nan THEN NaN
  ELSE Float(x.neg, RoundMag(MulN(x.mag, Num(d, FloatLen)), FALSE))

\* x < y and x > y; every comparison with NaN is false.
FloatLess(x, y) ==
  /\ ~x.nan /\ ~y.nan
  /\ IF x.neg /\ y.neg THEN Less(y.mag, x.mag)
     ELSE IF x.neg THEN ~(IsZero(x.mag) /\ IsZero(y.mag))
     ELSE IF y.neg THEN FALSE
     ELSE Less(x.mag, y.mag)
FloatGt(x, y) == FloatLess(y, x)

FloatNeg(x) == [x EXCEPT !.neg = ~x.neg]
FloatZero == Float(FALSE, Num(0, FloatLen))

\* The float64 values next below and next above a positive x.
Ulp(x) == Pow2(BitLen(x.mag) - MantissaBits)
NextDown(x) == Float(x.neg, SubN(x.mag, Ulp(x)))
NextUp(x) == Float(x.neg, AddN(x.mag, Ulp(x)))

\* uint64(x).  When the truncated value is not a uint64 (NaN, 2^64 or more, -1
\* or less) the result depends on the implementation: the amd64 code gives
\* 2^63, FCVTZU on arm64 saturates to 0 or 2^64-1.
TwoTo63 == [k \in 1..U64Len |-> IF k = U64Len THEN 128 ELSE 0]
ImplementationDependent == {U(0), TwoTo63, MaxUint64}
Uint64OfFloat(x) ==
  LET whole == SubSeq(x.mag, FracBytes + 1, FloatLen)
  IN  IF x.nan THEN ImplementationDependent
      ELSE IF IsZero(whole) THEN {U(0)}
      ELSE IF x.neg \/ ~(\A k \in (U64Len + 1)..Len(whole) : whole[k] = 0)
        THEN ImplementationDependent
      ELSE {Resize(whole, U64Len)}

\* The "%f" errors of ToLovelace.
NegativeError == [kind |-> "error", info |-> "ToLovelace: ada must be non-negative"]
RangeError == [kind |-> "error", info |-> "ToLovelace: value overflows uint64"]

\* float64(math.MaxUint64) / float64(LovelacePerADA)
maxAda == FloatDiv(FloatOfUint64(MaxUint64), LovelacePerADA)

\* The results ToLovelace(ada) can return.
ToLovelace(ada) ==
  IF FloatLess(ada, FloatZero) THEN {Fail(NegativeError)}
  ELSE IF FloatGt(ada, maxAda) THEN {Fail(RangeError)}
  ELSE {Ok(v) : v \in Uint64OfFloat(FloatMul(ada, LovelacePerADA))}

ToADA(lovelace) == FloatDiv(FloatOfUint64(lovelace), LovelacePerADA)

\* The fmt.Errorf error of AddLovelace; it names the two operands.
OverflowError(a, b) ==
  [kind |-> "error", info |-> "AddLovelace: overflow adding", a |-> a, b |-> b]

\* AddLovelace refusing a sum of exactly MaxUint64.
AddLovelaceRefusesMax(a, b) ==
  IF ~Less(a, U64Sub(MaxUint64, b)) THEN Fail(OverflowError(a, b))
  ELSE Ok(U64Add(a, b))

AddLovelace(a, b) ==
  IF U64Gt(a, U64Sub(MaxUint64, b)) THEN Fail(OverflowError(a, b))
  ELSE Ok(U64Add(a, b))

\* The loop of SumLovelace from element i on, with the running total.
RECURSIVE SumFrom(_, _, _)
SumFrom(values, i, total) ==
  IF i > Len(values) THEN Ok(total)
  ELSE LET r == AddLovelace(total, values[i])
       IN  IF Failed(r) THEN Fail(r.err) ELSE SumFrom(values, i + 1, r.val)

\* The loop of SumLovelace with its error check dropped.
RECURSIVE SumFromUnchecked(_, _, _)
SumFromUnchecked(values, i, total) ==
  IF i > Len(values) THEN Ok(total)
  ELSE SumFromUnchecked(values, i + 1, U64Add(total, values[i]))

SumLovelaceUnchecked(values) == SumFromUnchecked(values, 1, U(0))

\* SumLovelace returning the total reached so far when an addition overflows.
RECURSIVE SumFromKeepsPartial(_, _, _)
SumFromKeepsPartial(values, i, total) ==
  IF i > Len(values) THEN Ok(total)
  ELSE LET r == AddLovelace(total, values[i])
       IN  IF Failed(r) THEN Ok(total)
           ELSE SumFromKeepsPartial(values, i + 1, r.val)
SumLovelaceKeepsPartial(values) == SumFromKeepsPartial(values, 1, U(0))

SumLovelace(values) == SumFrom(values, 1, U(0))

\* The (bool, uint64, error) triple of IsAboveMinUTxO.
Guard(ok, required, err) == [ok |-> ok, val |-> required, err |-> err]

\* IsAboveMinUTxO demanding strictly more than the minimum.
IsAboveMinUTxOStrict(pp, lovelace, out) ==
  LET r == MinUTxO(pp, out)
  IN  IF Failed(r) THEN Guard(FALSE, U(0), r.err)
      ELSE Guard(Less(r.val, lovelace), r.val, NoErr)

IsAboveMinUTxO(pp, lovelace, out) ==
  LET r == MinUTxO(pp, out)
  IN  IF Failed(r) THEN Guard(FALSE, U(0), r.err)
      ELSE Guard(Leq(r.val, lovelace), r.val, NoErr)

-----------------------------------------------------------------------------
(* The values a caller supplies. *)

SmallVals == {U(n) : n \in 0..MaxSmall}

\* Counts: small ones and the largest uint64.
CountVals == SmallVals \cup {MaxUint64}

\* Parameter sets: the defaults, tiny and huge coefficients, and each way of
\* leaving a field zero.
ParamSet ==
  { DefaultMainnetParams,
    DefaultPreviewParams,
    ProtocolParams(U(1), U(1), U(1), U(MaxSmall)),
    ProtocolParams(MaxUint64, MaxUint64, MaxUint64, MaxUint64),
    ProtocolParams(U(0), U(155381), U(4310), U(16384)),
    ProtocolParams(U(44), U(0), U(4310), U(16384)),
    ProtocolParams(U(44), U(155381), U(0), U(16384)),
    ProtocolParams(U(44), U(155381), U(4310), U(0)),
    ProtocolParams(U(44), U(0), U(0), U(0)),
    ProtocolParams(U(0), U(0), U(0), U(0)) }

SizeVals == SmallVals \cup {U(350), U(16383), U(16384), U(16385), MaxUint64}
PaddingVals == {U(0), U(1), U(150), MaxUint64}
ByteVals == SmallVals \cup {U(125), MaxUint64}
NameLenVals == SmallVals \cup {U(16), U(32), U(33), MaxUint64}
NameBytesVals == {U(0), U(16)}
\* 2^64 - 20: the largest address length whose ADA-only size still fits.
LargestAdaOnlyAddress == [MaxUint64 EXCEPT ![1] = 236]
\* 2^64 - 19: the address length at which 10 + AddressBytes + 9 is 2^64.
FirstWrappingAddress == [MaxUint64 EXCEPT ![1] = 237]
AddressVals == {U(0), U(57), LargestAdaOnlyAddress, FirstWrappingAddress}
PolicyVals == {U(0), U(1)}

\* An optional byte length: <<present, length>>.
OptionalLen == {<<FALSE, U(0)>>, <<FALSE, U(MaxSmall)>>, <<TRUE, U(MaxSmall)>>}

OutputSet ==
  { [AddressBytes |-> a, NumPolicies |-> np, NumAssets |-> na,
     TotalAssetNameBytes |-> nb, HasDatumHash |-> dh,
     HasInlineDatum |-> d[1], InlineDatumBytes |-> d[2],
     HasScriptRef |-> s[1], ScriptRefBytes |-> s[2]] :
    a \in AddressVals, np \in PolicyVals, na \in CountVals,
    nb \in NameBytesVals, dh \in BOOLEAN, d \in OptionalLen, s \in OptionalLen }

\* Outputs and amounts handed to IsAboveMinUTxO.
GuardOutputs ==
  { BundleOutput(U(0), U(0), U(0)),
    BundleOutput(U(1), U(1), U(16)),
    [ZeroOutputSize EXCEPT !.AddressBytes = FirstWrappingAddress] }
AmountVals == {U(0), U(100), U(236 * 4310), U(2000000), MaxUint64}

\* Amounts to add: small ones and the two largest.
LovelaceVals == SmallVals \cup {U64Sub(MaxUint64, U(1)), MaxUint64}
SumVals == {U(0), U(1), U64Sub(MaxUint64, U(1)), MaxUint64}
SumSeqs == UNION {[1..n -> SumVals] : n \in 0..MaxLen}
\* Amounts converted to ADA: small ones, whole ADA, 2^53 + 1 and the largest.
ToADAVals ==
  { U(0), U(249), U(250), U(1000000), U(1500000),
    [k \in 1..U64Len |-> IF k = 1 THEN 1 ELSE IF k = 7 THEN 32 ELSE 0],
    MaxUint64 }

\* ADA amounts converted to Lovelace: 0, -0, 1, 1.5, 0.001, -1, the bound
\* maxAda with its two neighbours, and NaN.
AdaVals ==
  { FloatZero, FloatNeg(FloatZero),
    FloatOfUint64(U(1)),
    FloatDiv(FloatOfUint64(U(3)), 2),
    FloatDiv(FloatOfUint64(U(1)), 1000),
    FloatNeg(FloatOfUint64(U(1))),
    maxAda, NextDown(maxAda), NextUp(maxAda),
    NaN }


-----------------------------------------------------------------------------
(* The caller: it holds one ProtocolParams value p and calls one operation *)
(* of the package on it; EstimateFee and MinUTxOForBundle may be called a  *)
(* second time, and prev then keeps the first call for comparison.         *)

NoCall == [op |-> "none"]
NoRes == Ok(U(0))

Init ==
  /\ p \in ParamSet
  /\ op = "init"
  /\ args = [none |-> TRUE]
  /\ res = NoRes
  /\ prev = NoCall

\* The call's name, arguments and result, as the caller sees them.
Called(name, a, r) ==
  /\ op' = name
  /\ args' = a
  /\ res' = r

\* A first call, or a second call of the same operation after a first that
\* returned a value; prev keeps the first.
MayCall(name) ==
  /\ prev = NoCall
  /\ op = "init" \/ (op = name /\ ~Failed(res))

Remember ==
  prev' = IF op = "init" THEN NoCall
          ELSE [op |-> op, args |-> args, res |-> res]

CallMinFee ==
  /\ op = "init"
  /\ \E x \in SizeVals :
       Called("MinFee", [txSizeBytes |-> x], MinFee(p, x))
  /\ UNCHANGED <<p, prev>>

CallMinFeeWithPadding ==
  /\ op = "init"
  /\ \E x \in SizeVals, y \in PaddingVals :
       Called("MinFeeWithPadding", [txSizeBytes |-> x, paddingBytes |-> y],
              MinFeeWithPadding(p, x, y))
  /\ UNCHANGED <<p, prev>>

CallEstimateFee ==
  /\ MayCall("EstimateFee")
  /\ \E i \in CountVals, o \in CountVals, m \in BOOLEAN :
       Called("EstimateFee",
              [numInputs |-> i, numOutputs |-> o, hasMetadata |-> m],
              EstimateFee(p, i, o, m))
  /\ Remember
  /\ UNCHANGED p

CallEstimateOutputBytes ==
  /\ op = "init"
  /\ \E out \in OutputSet :
       Called("EstimateOutputBytes", [out |-> out],
              Ok(EstimateOutputBytes(out)))
  /\ UNCHANGED <<p, prev>>

CallMinUTxOFromBytes ==
  /\ op = "init"
  /\ \E n \in ByteVals :
       Called("MinUTxOFromBytes", [serializedOutputBytes |-> n],
              MinUTxOFromBytes(p, n))
  /\ UNCHANGED <<p, prev>>

CallMinUTxO ==
  /\ op = "init"
  /\ \E out \in OutputSet :
       Called("MinUTxO", [out |-> out], MinUTxO(p, out))
  /\ UNCHANGED <<p, prev>>

CallMinUTxOADAOnly ==
  /\ op = "init"
  /\ Called("MinUTxOADAOnly", [none |-> TRUE], MinUTxOADAOnly(p))
  /\ UNCHANGED <<p, prev>>

CallMinUTxOForNFT ==
  /\ op = "init"
  /\ \E n \in NameLenVals :
       Called("MinUTxOForNFT", [assetNameLen |-> n], MinUTxOForNFT(p, n))
  /\ UNCHANGED <<p, prev>>

CallMinUTxOForBundle ==
  /\ MayCall("MinUTxOForBundle")
  /\ \E np \in CountVals, na \in CountVals, nb \in NameBytesVals :
       Called("MinUTxOForBundle",
              [numPolicies |-> np, numAssets |-> na,
               totalAssetNameBytes |-> nb],
              MinUTxOForBundle(p, np, na, nb))
  /\ Remember
  /\ UNCHANGED p

CallIsAboveMinUTxO ==
  /\ op = "init"
  /\ \E out \in GuardOutputs, amount \in AmountVals :
       Called("IsAboveMinUTxO", [lovelace |-> amount, out |-> out],
              IsAboveMinUTxO(p, amount, out))
  /\ UNCHANGED <<p, prev>>

CallAddLovelace ==
  /\ op = "init"
  /\ \E a \in LovelaceVals, b \in LovelaceVals :
       Called("AddLovelace", [a |-> a, b |-> b], AddLovelace(a, b))
  /\ UNCHANGED <<p, prev>>

CallSumLovelace ==
  /\ op = "init"
  /\ \E values \in SumSeqs :
       Called("SumLovelace", [values |-> values], SumLovelace(values))
  /\ UNCHANGED <<p, prev>>

CallValidate ==
  /\ op = "init"
  /\ Called("Validate", [none |-> TRUE], Fail(Validate(p)))
  /\ UNCHANGED <<p, prev>>

CallToADA ==
  /\ op = "init"
  /\ \E n \in ToADAVals :
       Called("ToADA", [lovelace |-> n], Ok(ToADA(n)))
  /\ UNCHANGED <<p, prev>>

\* ToLovelace is called on an amount of the caller's, or on the float64 that
\* ToADA just returned.
CallToLovelace ==
  /\ prev = NoCall
  /\ \E ada \in (IF op = "init" THEN AdaVals
                 ELSE IF op = "ToADA" THEN {res.val} ELSE {}) :
       \E r \in ToLovelace(ada) :
         Called("ToLovelace", [ada |-> ada], r)
  /\ Remember
  /\ UNCHANGED p

Next ==
  \/ CallMinFee
  \/ CallMinFeeWithPadding
  \/ CallEstimateFee
  \/ CallEstimateOutputBytes
  \/ CallMinUTxOFromBytes
  \/ CallMinUTxO
  \/ CallMinUTxOADAOnly
  \/ CallMinUTxOForNFT
  \/ CallMinUTxOForBundle
  \/ CallIsAboveMinUTxO
  \/ CallAddLovelace
  \/ CallSumLovelace
  \/ CallValidate
  \/ CallToADA
  \/ CallToLovelace

Spec == Init /\ [][Next]_vars
-----------------------------------------------------------------------------
(* Exact values: the same formulas over the integers, on WideLen bytes.    *)

AllNonZero(pp) ==
  /\ ~IsZero(pp.MinFeeA)
  /\ ~IsZero(pp.MinFeeB)
  /\ ~IsZero(pp.CoinsPerUTxOByte)
  /\ ~IsZero(pp.MaxTxSize)

WNum(v) == Num(v, WideLen)

\* a * size + b over the integers; size is a wide numeral.
ExactFee(pp, size) == AddN(MulN(W(pp.MinFeeA), size), W(pp.MinFeeB))

\* 200 + 140 * numInputs + 65 * numOutputs (+ 250) over the integers.
ExactTxSize(numInputs, numOutputs, hasMetadata) ==
  AddN(AddN(AddN(WNum(200), MulN(WNum(140), W(numInputs))),
            MulN(WNum(65), W(numOutputs))),
       IF hasMetadata THEN WNum(250) ELSE WNum(0))

\* The output size formula over the integers.
ExactOutputBytes(out) ==
  LET base == AddN(AddN(WNum(10), W(out.AddressBytes)), WNum(9))
      bundle == IF ~IsZero(out.NumAssets) \/ ~IsZero(out.NumPolicies)
                THEN AddN(AddN(AddN(WNum(5), MulN(WNum(28), W(out.NumPolicies))),
                               AddN(MulN(WNum(12), W(out.NumAssets)),
                                    MulN(WNum(5), W(out.NumAssets)))),
                          W(out.TotalAssetNameBytes))
                ELSE WNum(0)
      datum == IF out.HasDatumHash THEN WNum(32) ELSE WNum(0)
      inline == IF out.HasInlineDatum THEN W(out.InlineDatumBytes) ELSE WNum(0)
      script == IF out.HasScriptRef THEN W(out.ScriptRefBytes) ELSE WNum(0)
  IN  AddN(AddN(AddN(AddN(base, bundle), datum), inline), script)

\* (160 + bytes) * CoinsPerUTxOByte over the integers; bytes is a wide numeral.
ExactMinUTxO(pp, bytes) == MulN(AddN(WNum(160), bytes), W(pp.CoinsPerUTxOByte))

InRange(pp, size) == ~IsZero(size) /\ ~U64Gt(size, pp.MaxTxSize)

-----------------------------------------------------------------------------
(* Claims *)

\* C1: for valid params and 1 <= txSizeBytes <= MaxTxSize, MinFee succeeds and
\* returns exactly the integer MinFeeA * txSizeBytes + MinFeeB.
C1_MinFeeExact ==
  (op = "MinFee" /\ AllNonZero(p) /\ InRange(p, args.txSizeBytes)) =>
    /\ ~Failed(res)
    /\ W(res.val) = ExactFee(p, W(args.txSizeBytes))

\* The size sums and the amount an operation would compute over the integers,
\* for the calls that pass their argument checks.
ExactSteps ==
  CASE op = "MinFee" ->
         IF InRange(p, args.txSizeBytes)
         THEN {ExactFee(p, W(args.txSizeBytes))} ELSE {}
    [] op = "MinFeeWithPadding" ->
         LET t == AddN(W(args.txSizeBytes), W(args.paddingBytes))
         IN  {t} \cup (IF Fits64(t) /\ InRange(p, Resize(t, U64Len))
                       THEN {ExactFee(p, t)} ELSE {})
    [] op = "EstimateFee" ->
         IF IsZero(args.numInputs) \/ IsZero(args.numOutputs) THEN {}
         ELSE LET t == ExactTxSize(args.numInputs, args.numOutputs,
                                   args.hasMetadata)
              IN  {t} \cup (IF Fits64(t) /\ InRange(p, Resize(t, U64Len))
                            THEN {ExactFee(p, t)} ELSE {})
    [] op = "MinUTxOFromBytes" ->
         IF IsZero(args.serializedOutputBytes) THEN {}
         ELSE {ExactMinUTxO(p, W(args.serializedOutputBytes))}
    [] op = "MinUTxO" ->
         {ExactOutputBytes(args.out), ExactMinUTxO(p, ExactOutputBytes(args.out))}
    [] op = "MinUTxOADAOnly" ->
         {ExactMinUTxO(p, ExactOutputBytes(BundleOutput(U(0), U(0), U(0))))}
    [] op = "MinUTxOForNFT" ->
         IF U64Gt(args.assetNameLen, U(32)) THEN {}
         ELSE LET e == ExactOutputBytes(BundleOutput(U(1), U(1), args.assetNameLen))
              IN  {e, ExactMinUTxO(p, e)}
    [] op = "MinUTxOForBundle" ->
         IF IsZero(args.numPolicies) \/ IsZero(args.numAssets) THEN {}
         ELSE LET e == ExactOutputBytes(BundleOutput(args.numPolicies,
                         args.numAssets, args.totalAssetNameBytes))
              IN  {e, ExactMinUTxO(p, e)}
    [] OTHER -> {}

\* C2: money amounts never wrap: when the exact result, or an intermediate
\* size sum, exceeds 2^64-1, the operation reports a failure.
C2_NeverWraps ==
  (\E w \in ExactSteps : ~Fits64(w)) => Failed(res)

\* C3: MinFee fails exactly when params are invalid, txSizeBytes is 0 or
\* txSizeBytes > MaxTxSize; with valid params that failure is a fee error;
\* txSizeBytes = MaxTxSize is accepted.
C3_MinFeeFailsExactly ==
  op = "MinFee" =>
    /\ Failed(res) <=> (~AllNonZero(p) \/ IsZero(args.txSizeBytes)
                          \/ Less(p.MaxTxSize, args.txSizeBytes))
    /\ (AllNonZero(p) /\ Failed(res)) => res.err.kind = "FeeError"
    /\ (AllNonZero(p) /\ args.txSizeBytes = p.MaxTxSize) => ~Failed(res)

C3_Witness ==
  /\ op = "MinFee"
  /\ AllNonZero(p)
  /\ args.txSizeBytes = p.MaxTxSize
  /\ ~Failed(res)

\* C4: MinFeeWithPadding(p, x, y) has the outcome of MinFee on the true total
\* x + y, and fails when x + y exceeds the uint64 range.
C4_PaddingIsMinFeeOfTrueTotal ==
  op = "MinFeeWithPadding" =>
    LET t == AddN(W(args.txSizeBytes), W(args.paddingBytes))
    IN  IF Fits64(t) THEN res = MinFee(p, Resize(t, U64Len))
        ELSE Failed(res)

\* C5: for valid params and n > 0, MinUTxOFromBytes succeeds and returns exactly
\* (160 + n) * CoinsPerUTxOByte; for n = 0 it fails with a minUTxO error.
C5_MinUTxOFromBytesExact ==
  (op = "MinUTxOFromBytes" /\ AllNonZero(p)) =>
    IF IsZero(args.serializedOutputBytes)
    THEN res.err.kind = "MinUTxOError"
    ELSE /\ ~Failed(res)
         /\ W(res.val) = ExactMinUTxO(p, W(args.serializedOutputBytes))

\* C6: EstimateOutputBytes always succeeds and equals the sum of its parts
\* over the integers; hence an output with one policy and one asset is strictly
\* larger than the ADA-only output with the same address length.
C6_EstimateOutputBytesSum ==
  op = "EstimateOutputBytes" =>
    /\ ~Failed(res)
    /\ W(res.val) = ExactOutputBytes(args.out)
    /\ (args.out.NumPolicies = U(1) /\ args.out.NumAssets = U(1)) =>
         Less(EstimateOutputBytes([args.out EXCEPT !.NumPolicies = U(0),
                                                   !.NumAssets = U(0)]),
              res.val)

\* C7: EstimateFee fails if numInputs = 0, numOutputs = 0 or params are invalid;
\* otherwise its outcome is that of MinFee on S = 200 + 140 * numInputs +
\* 65 * numOutputs (+ 250): MinFeeA * S + MinFeeB, never below MinFeeB, and a
\* fee error when S > MaxTxSize.
C7_EstimateFeeIsMinFeeOfSize ==
  op = "EstimateFee" =>
    LET S == ExactTxSize(args.numInputs, args.numOutputs, args.hasMetadata)
    IN  IF ~AllNonZero(p) \/ IsZero(args.numInputs) \/ IsZero(args.numOutputs)
        THEN Failed(res)
        ELSE IF Less(W(p.MaxTxSize), S)
        THEN res.err.kind = "FeeError"
        ELSE /\ ~Failed(res)
             /\ W(res.val) = ExactFee(p, S)
             /\ Leq(p.MinFeeB, res.val)

\* C8: with valid params fixed, EstimateFee is non-decreasing in numInputs and
\* in numOutputs, and strictly increases when hasMetadata flips to true.
C8_EstimateFeeMonotone ==
  (op = "EstimateFee" /\ prev.op = "EstimateFee" /\ AllNonZero(p)
     /\ ~Failed(prev.res) /\ ~Failed(res)) =>
    LET a == prev.args
        b == args
    IN  /\ (Leq(a.numInputs, b.numInputs) /\ Leq(a.numOutputs, b.numOutputs)
              /\ a.hasMetadata = b.hasMetadata) =>
             Leq(prev.res.val, res.val)
        /\ (a.numInputs = b.numInputs /\ a.numOutputs = b.numOutputs
              /\ ~a.hasMetadata /\ b.hasMetadata) =>
             Less(prev.res.val, res.val)

\* C9: MinUTxOForNFT fails with a minUTxO error for assetNameLen > 32; for valid
\* params and assetNameLen in 0..32 it succeeds, equals MinUTxO of the
\* one-policy one-asset output and is strictly greater than MinUTxOADAOnly.
C9_NFTAboveADAOnly ==
  op = "MinUTxOForNFT" =>
    IF U64Gt(args.assetNameLen, U(32))
    THEN res.err.kind = "MinUTxOError"
    ELSE AllNonZero(p) =>
           /\ ~Failed(res)
           /\ res = MinUTxO(p, BundleOutput(U(1), U(1), args.assetNameLen))
           /\ Less(MinUTxOADAOnly(p).val, res.val)

\* C10: MinUTxOForBundle fails with a minUTxO error when numPolicies = 0 or
\* numAssets = 0; for valid params and non-zero counts the result strictly
\* increases when one of its three arguments increases and none decreases.
C10_BundleGrowth ==
  op = "MinUTxOForBundle" =>
    /\ (IsZero(args.numPolicies) \/ IsZero(args.numAssets)) =>
         res.err.kind = "MinUTxOError"
    /\ (prev.op = "MinUTxOForBundle" /\ AllNonZero(p)
          /\ ~Failed(prev.res) /\ ~Failed(res)) =>
         LET a == prev.args
             b == args
         IN  (/\ Leq(a.numPolicies, b.numPolicies)
              /\ Leq(a.numAssets, b.numAssets)
              /\ Leq(a.totalAssetNameBytes, b.totalAssetNameBytes)
              /\ a # b) =>
               Less(prev.res.val, res.val)

\* C11: when MinUTxO succeeds with r, IsAboveMinUTxO returns (amount >= r, r,
\* nil), so amount = r is sufficient; when MinUTxO fails it returns (false, 0)
\* and that error.  With the mainnet defaults and a 57-byte address it returns
\* true for 2,000,000 and false for 100.
C11_GuardComparesWithMinUTxO ==
  op = "IsAboveMinUTxO" =>
    LET r == MinUTxO(p, args.out)
    IN  /\ ~Failed(r) =>
             /\ res.err = NoErr
             /\ res.val = r.val
             /\ res.ok <=> Leq(r.val, args.lovelace)
             /\ args.lovelace = r.val => res.ok
        /\ Failed(r) => res = Guard(FALSE, U(0), r.err)
        /\ (p = DefaultMainnetParams /\ args.out = BundleOutput(U(0), U(0), U(0))) =>
             /\ args.lovelace = U(2000000) => res.ok
             /\ args.lovelace = U(100) => ~res.ok

C11_Witness ==
  /\ op = "IsAboveMinUTxO"
  /\ ~Failed(res)
  /\ args.lovelace = res.val
  /\ res.ok

\* The sum of the first n amounts over the integers.
RECURSIVE ExactSum(_, _)
ExactSum(values, n) ==
  IF n = 0 THEN WNum(0) ELSE AddN(ExactSum(values, n - 1), W(values[n]))

\* C12: SumLovelace is the left fold of AddLovelace from 0: 0 for the empty
\* sequence, the exact sum when every prefix sum is at most 2^64-1, and
\* otherwise a failure with amount 0 raised at the first position whose prefix
\* sum exceeds 2^64-1.
C12_SumIsCheckedFold ==
  op = "SumLovelace" =>
    LET vs == args.values
        over == {i \in 1..Len(vs) : ~Fits64(ExactSum(vs, i))}
    IN  /\ vs = <<>> => res = Ok(U(0))
        /\ over = {} => res = Ok(Resize(ExactSum(vs, Len(vs)), U64Len))
        /\ over # {} =>
             LET k == CHOOSE i \in over : \A j \in over : i <= j
             IN  /\ Failed(res)
                 /\ res.val = U(0)
                 /\ res.err.a = Resize(ExactSum(vs, k - 1), U64Len)
                 /\ res.err.b = vs[k]

C12_Witness ==
  /\ op = "SumLovelace"
  /\ Failed(res)
  /\ ~IsZero(res.err.a)
  /\ ~Fits64(ExactSum(args.values, 2))
  /\ Len(args.values) > 2

\* C13: AddLovelace(a, b) returns a + b and no error exactly when a + b is at
\* most 2^64-1, and otherwise an error; it never returns a wrapped sum.
C13_AddIsChecked ==
  op = "AddLovelace" =>
    LET t == AddN(W(args.a), W(args.b))
    IN  IF Fits64(t) THEN res = Ok(Resize(t, U64Len))
        ELSE Failed(res) /\ res.val = U(0)

C13_Witness ==
  /\ op = "AddLovelace"
  /\ ~IsZero(args.a)
  /\ ~IsZero(args.b)
  /\ AddN(W(args.a), W(args.b)) = W(MaxUint64)
  /\ res = Ok(MaxUint64)

\* The first field of pp, in the order MinFeeA, MinFeeB, CoinsPerUTxOByte,
\* MaxTxSize, that is zero.
FieldOrder == <<"MinFeeA", "MinFeeB", "CoinsPerUTxOByte", "MaxTxSize">>
FirstZeroField(pp) ==
  LET zero == {i \in 1..Len(FieldOrder) : IsZero(pp[FieldOrder[i]])}
  IN  FieldOrder[CHOOSE i \in zero : \A j \in zero : i <= j]

\* C14: Validate succeeds iff all four fields are non-zero; on failure it
\* returns a parameter error naming the first zero field.  Both default
\* parameter sets validate.
C14_ValidateNamesFirstZeroField ==
  /\ op = "Validate" =>
       IF AllNonZero(p) THEN res.err = NoErr
       ELSE res.err = ParamError(FirstZeroField(p))
  /\ Validate(DefaultMainnetParams) = NoErr
  /\ Validate(DefaultPreviewParams) = NoErr

C14_Witness ==
  /\ op = "Validate"
  /\ IsZero(p.MinFeeB)
  /\ IsZero(p.MaxTxSize)
  /\ res.err = ParamError("MinFeeB")

\* The operations that take a ProtocolParams value.
ParamOps ==
  { "MinFee", "MinFeeWithPadding", "EstimateFee", "MinUTxOFromBytes", "MinUTxO",
    "MinUTxOADAOnly", "MinUTxOForNFT", "MinUTxOForBundle", "IsAboveMinUTxO" }

\* C15: every operation that takes ProtocolParams fails and returns no amount
\* whenever some params field is zero, whatever its other arguments are, also
\* when the zero field is one its formula does not use.
C15_ZeroFieldAlwaysFails ==
  (op \in ParamOps /\ ~AllNonZero(p)) =>
    /\ Failed(res)
    /\ res.val = U(0)
    /\ op = "IsAboveMinUTxO" => ~res.ok

C15_Witness ==
  /\ op = "MinFee"
  /\ IsZero(p.CoinsPerUTxOByte)
  /\ ~IsZero(p.MinFeeA) /\ ~IsZero(p.MinFeeB) /\ ~IsZero(p.MaxTxSize)
  /\ ~IsZero(args.txSizeBytes)
  /\ Leq(args.txSizeBytes, p.MaxTxSize)
  /\ Failed(res)

FeeOps == {"MinFee", "MinFeeWithPadding", "EstimateFee"}

\* Whether an argument other than params violates the documented precondition
\* of the operation called, with sizes taken over the integers.
ArgumentViolatesPrecondition ==
  CASE op = "MinFee" -> ~InRange(p, args.txSizeBytes)
    [] op = "MinFeeWithPadding" ->
         LET total == AddN(W(args.txSizeBytes), W(args.paddingBytes))
         IN  IsZero(total) \/ Less(W(p.MaxTxSize), total)
    [] op = "EstimateFee" ->
         \/ IsZero(args.numInputs)
         \/ IsZero(args.numOutputs)
         \/ Less(W(p.MaxTxSize),
                 ExactTxSize(args.numInputs, args.numOutputs, args.hasMetadata))
    [] op = "MinUTxOFromBytes" -> IsZero(args.serializedOutputBytes)
    [] op = "MinUTxOForNFT" -> U64Gt(args.assetNameLen, U(32))
    [] op = "MinUTxOForBundle" ->
         IsZero(args.numPolicies) \/ IsZero(args.numAssets)
    [] OTHER -> FALSE

\* C16: fee operations fail only with a parameter error or a fee error, minUTxO
\* operations only with a parameter error or a minUTxO error; a parameter error
\* occurs only when some params field is zero, and a fee or minUTxO error only
\* when an argument other than params violates its precondition.
C16_ErrorKinds ==
  (op \in ParamOps /\ Failed(res)) =>
    /\ op \in FeeOps => res.err.kind \in {"ParamError", "FeeError"}
    /\ op \notin FeeOps => res.err.kind \in {"ParamError", "MinUTxOError"}
    /\ res.err.kind = "ParamError" => ~AllNonZero(p)
    /\ res.err.kind \in {"FeeError", "MinUTxOError"} =>
         ArgumentViolatesPrecondition

\* C19: for valid params and every OutputSize, MinUTxO, MinUTxOADAOnly and
\* IsAboveMinUTxO succeed, and MinUTxO returns the uint64
\* (160 + EstimateOutputBytes(out)) * CoinsPerUTxOByte.
C19_MinUTxOAlwaysSucceeds ==
  (op \in {"MinUTxO", "MinUTxOADAOnly", "IsAboveMinUTxO"} /\ AllNonZero(p)) =>
    /\ ~Failed(res)
    /\ op = "MinUTxO" =>
         res.val = U64Mul(U64Add(U(160), EstimateOutputBytes(args.out)),
                          p.CoinsPerUTxOByte)

\* C20: the first violated check in code order determines the error.  MinFee,
\* EstimateFee and MinUTxOFromBytes validate params first and report a
\* parameter error whatever their other arguments are; MinUTxOForNFT
\* (assetNameLen > 32) and MinUTxOForBundle (a zero count) check their own
\* argument first and report a minUTxO error even when params are invalid.
C20_FirstViolatedCheckWins ==
  /\ (op \in {"MinFee", "EstimateFee", "MinUTxOFromBytes"} /\ ~AllNonZero(p)) =>
       res.err = ParamError(FirstZeroField(p))
  /\ (op = "MinFee" /\ AllNonZero(p) /\ IsZero(args.txSizeBytes)) =>
       res.err = FeeError("txSizeBytes must be greater than zero")
  /\ (op = "EstimateFee" /\ AllNonZero(p) /\ IsZero(args.numInputs)) =>
       res.err = FeeError("numInputs must be at least 1")
  /\ (op = "EstimateFee" /\ AllNonZero(p) /\ ~IsZero(args.numInputs)
        /\ IsZero(args.numOutputs)) =>
       res.err = FeeError("numOutputs must be at least 1")
  /\ (op = "MinUTxOFromBytes" /\ AllNonZero(p)
        /\ IsZero(args.serializedOutputBytes)) =>
       res.err = MinUTxOError("serializedOutputBytes must be greater than zero")
  /\ op = "MinUTxOForNFT" =>
       IF U64Gt(args.assetNameLen, U(32))
       THEN res.err = MinUTxOError("assetNameLen exceeds maximum of 32 bytes")
       ELSE ~AllNonZero(p) => res.err = ParamError(FirstZeroField(p))
  /\ op = "MinUTxOForBundle" =>
       IF IsZero(args.numPolicies)
       THEN res.err = MinUTxOError("numPolicies must be at least 1")
       ELSE IF IsZero(args.numAssets)
       THEN res.err = MinUTxOError("numAssets must be at least 1")
       ELSE ~AllNonZero(p) => res.err = ParamError(FirstZeroField(p))

C20_Witness ==
  /\ op = "MinUTxOForNFT"
  /\ ~AllNonZero(p)
  /\ U64Gt(args.assetNameLen, U(32))
  /\ res.err.kind = "MinUTxOError"

\* C17: ToLovelace(ToADA(n)) succeeds and equals n for every uint64 n.
C17_RoundTrip ==
  (op = "ToLovelace" /\ prev # NoCall) => res = Ok(prev.args.lovelace)

\* Whether a non-negative float64 is 2^64 or more.
ExceedsMaxUint64(x) ==
  \E k \in (FracBytes + U64Len + 1)..FloatLen : x.mag[k] # 0

\* C18: ToLovelace(ada) fails for every negative ada and for every ada whose
\* product with 1,000,000 exceeds 2^64-1; otherwise it returns that product
\* truncated toward zero.  The product is taken as the float64 product the
\* code computes.
C18_ToLovelaceChecked ==
  (op = "ToLovelace" /\ ~args.ada.nan) =>
    LET product == FloatMul(args.ada, LovelacePerADA)
    IN  IF FloatLess(args.ada, FloatZero) \/ ExceedsMaxUint64(product)
        THEN Failed(res)
        ELSE res = Ok(Resize(SubSeq(product.mag, FracBytes + 1, FloatLen), U64Len))

\* Every reordering of the sequence s.
Reorderings(s) ==
  LET idx == 1..Len(s)
  IN  { [i \in idx |-> s[f[i]]] :
        f \in {g \in [idx -> idx] : \A i, j \in idx : g[i] = g[j] => i = j} }

\* C21: SumLovelace is order-independent: on every permutation of its argument
\* it succeeds with the same total, or it fails on both; only the position at
\* which the overflow is detected may differ.
C21_SumOrderIndependent ==
  op = "SumLovelace" =>
    \A q \in Reorderings(args.values) :
      LET r == SumLovelace(q)
      IN  /\ Failed(r) <=> Failed(res)
          /\ r.val = res.val

C21_Witness ==
  /\ op = "SumLovelace"
  /\ Failed(res)
  /\ \E q \in Reorderings(args.values) :
       /\ q # args.values
       /\ Failed(SumLovelace(q))
       /\ SumLovelace(q).err # res.err
  /\ \E q \in Reorderings(args.values) :
       Len(q) > 2 /\ ~Fits64(ExactSum(q, Len(q))) /\ Fits64(ExactSum(q, 2))
====
